---- MODULE Spec2Model ----
(***************************************************************************)
(* Model of the group-assignment submission portal (src/app.py): the       *)
(* submissions ledger, the class registry, the upload store, the archive   *)
(* builder, the name sanitizer and the Streamlit page run (main).          *)
(*                                                                         *)
(* Text is a sequence of characters; a character is a token such as "a",   *)
(* " " or "U+00E9".  Bytes are sequences of small integers.                *)
(***************************************************************************)
EXTENDS Integers, Sequences, FiniteSets, TLC

VARIABLES
    now,          \* the wall clock, in seconds
    classes,      \* table classes: sequence of rows, id = position
    submissions,  \* table submissions: sequence of rows, id = position
    files,        \* the upload store: path -> [content, complete]
    is_admin,     \* st.session_state["is_admin"]
    run,          \* position of the submit handler inside a run of main()
    page,         \* what the last run of main() rendered
    call,         \* last direct call of a function: [op, arg, ret]
    uploaded,     \* history: the upload behind each ledger row, by row id
    crashes       \* history: how often the server process died

vars == <<now, classes, submissions, files, is_admin, run, page, call, uploaded,
          crashes>>

(***************************************************************************)
(* Bounds                                                                  *)
(***************************************************************************)
MaxTime == 1
MaxSubs == 2
MaxCrashes == 1
MaxRows == 3
MaxRegRows == 1
MaxSanLen == 3

(***************************************************************************)
(* Characters                                                              *)
(***************************************************************************)
AsciiDigits == {"0", "1", "2", "3", "4", "5", "6", "7", "8", "9"}
AsciiUpper == {"A", "B", "C", "D", "E", "F", "G", "H", "I", "J", "K", "L", "M",
               "N", "O", "P", "Q", "R", "S", "T", "U", "V", "W", "X", "Y", "Z"}
AsciiLower == {"a", "b", "c", "d", "e", "f", "g", "h", "i", "j", "k", "l", "m",
               "n", "o", "p", "q", "r", "s", "t", "u", "v", "w", "x", "y", "z"}
\* non-ASCII characters for which str.isalnum() is true: e-acute, superscript two
UnicodeAlnum == {"U+00B2", "U+00E9"}
\* characters for which str.isspace() is true
Whitespace == {" "}

\* the characters of the model in code point order
CharOrder ==
    <<" ", "(", ")", "-", ".", "/", "0", "1", "2", "3", "4", "5", "6", "7", "8", "9",
      "A", "B", "C", "D", "E", "F", "G", "H", "I", "J", "K", "L", "M",
      "N", "O", "P", "Q", "R", "S", "T", "U", "V", "W", "X", "Y", "Z", "_",
      "a", "b", "c", "d", "e", "f", "g", "h", "i", "j", "k", "l", "m",
      "n", "o", "p", "q", "r", "s", "t", "u", "v", "w", "x", "y", "z",
      "U+00B2", "U+00E9", "U+2014">>

Code(c) == CHOOSE i \in 1..Len(CharOrder) : CharOrder[i] = c

\* str.isalnum() on one character
IsAlnum(c) == c \in AsciiDigits \cup AsciiUpper \cup AsciiLower \cup UnicodeAlnum

\* [A-Za-z0-9_-]
IsAsciiSafe(c) == c \in AsciiDigits \cup AsciiUpper \cup AsciiLower \cup {"-", "_"}

(***************************************************************************)
(* Text helpers                                                            *)
(***************************************************************************)
\* string comparison by code point (SQLite BINARY collation, Python str <)
RECURSIVE LexLess(_, _)
LexLess(s, t) ==
    IF t = <<>> THEN FALSE
    ELSE IF s = <<>> THEN TRUE
    ELSE IF Head(s) = Head(t) THEN LexLess(Tail(s), Tail(t))
    ELSE Code(Head(s)) < Code(Head(t))

RECURSIVE LStrip(_)
LStrip(s) ==
    IF s # <<>> /\ Head(s) \in Whitespace THEN LStrip(Tail(s)) ELSE s

RECURSIVE RStrip(_)
RStrip(s) ==
    IF s # <<>> /\ s[Len(s)] \in Whitespace
    THEN RStrip(SubSeq(s, 1, Len(s) - 1)) ELSE s

\* str.strip()
Strip(s) == RStrip(LStrip(s))

\* a variant of sanitize_name that forgets to trim
sanitize_name_notrim(name) ==
    [i \in 1..Len(name) |->
        IF IsAlnum(name[i]) \/ name[i] \in {"-", "_"} THEN name[i] ELSE "_"]

\* sanitize_name (app.py:151-153)
sanitize_name(name) ==
    LET t == Strip(name) IN
    [i \in 1..Len(t) |->
        IF IsAlnum(t[i]) \/ t[i] \in {"-", "_"} THEN t[i] ELSE "_"]

(***************************************************************************)
(* Configuration (app.py:18-22)                                            *)
(***************************************************************************)
DB_PATH == "submissions.db"
UPLOAD_DIR == <<"u", "p", "l", "o", "a", "d", "s">>
ADMIN_PASSWORD == "admin123"

\* the "all" sentinels of the admin filters (app.py:379, 389)
SemuaKelas == <<"(", "S", "e", "m", "u", "a", " ", "K", "e", "l", "a", "s", ")">>
SemuaKelompok ==
    <<"(", "S", "e", "m", "u", "a", " ", "K", "e", "l", "o", "m", "p", "o", "k", ")">>

(***************************************************************************)
(* Time formatting and paths                                               *)
(***************************************************************************)
DigitChar(d) == CharOrder[Code("0") + d]

\* datetime.now().strftime(...): fixed width, zero padded; the model keeps
\* the seconds field (the fields to its left are the same in every value)
strftime(t) == <<DigitChar((t \div 10) % 10), DigitChar(t % 10)>>

\* os.path.join(a, b)
path_join(a, b) ==
    IF b # <<>> /\ Head(b) = "/" THEN b
    ELSE IF a = <<>> \/ a[Len(a)] = "/" THEN a \o b
    ELSE a \o <<"/">> \o b

\* os.path.basename(p)
RECURSIVE basename(_)
basename(p) ==
    IF \E i \in 1..Len(p) : p[i] = "/"
    THEN basename(Tail(p))
    ELSE p

(***************************************************************************)
(* Submissions ledger                                                      *)
(***************************************************************************)
\* add_submission (app.py:66-86): id is AUTOINCREMENT, rows are never deleted
add_submission(subs, t, class_name, group_name, notes, file_path, file_name, file_size) ==
    Append(subs, [id |-> Len(subs) + 1,
                  timestamp |-> strftime(t),
                  class_name |-> class_name,
                  group_name |-> group_name,
                  notes |-> notes,
                  file_path |-> file_path,
                  file_name |-> file_name,
                  file_size |-> file_size])

\* a sorter that puts a row before the rows of equal timestamp
InsertDescUnstable(sorted, r) ==
    LET k == Cardinality({j \in 1..Len(sorted) :
                            LexLess(r.timestamp, sorted[j].timestamp)})
    IN SubSeq(sorted, 1, k) \o <<r>> \o SubSeq(sorted, k + 1, Len(sorted))

\* one step of the sorter behind ORDER BY timestamp DESC: the row goes after
\* every row whose timestamp is not smaller (rows are scanned in id order)
InsertDesc(sorted, r) ==
    LET k == Cardinality({j \in 1..Len(sorted) :
                            ~LexLess(sorted[j].timestamp, r.timestamp)})
    IN SubSeq(sorted, 1, k) \o <<r>> \o SubSeq(sorted, k + 1, Len(sorted))

RECURSIVE SortDesc(_)
SortDesc(subs) ==
    IF subs = <<>> THEN <<>>
    ELSE InsertDesc(SortDesc(SubSeq(subs, 1, Len(subs) - 1)), subs[Len(subs)])

\* get_all_submissions (app.py:89-93)
get_all_submissions(subs) == SortDesc(subs)

(***************************************************************************)
(* Class registry                                                          *)
(***************************************************************************)
\* the smallest text of a non-empty set
MinText(S) == CHOOSE s \in S : \A t \in S : ~LexLess(t, s)

RECURSIVE SortTexts(_)
SortTexts(S) ==
    IF S = {} THEN <<>>
    ELSE LET m == MinText(S) IN <<m>> \o SortTexts(S \ {m})

\* get_active_classes (app.py:97-105); class_name is UNIQUE
get_active_classes(cls) ==
    SortTexts({cls[i].class_name : i \in {j \in 1..Len(cls) : cls[j].is_active = 1}})

\* get_all_classes_df (app.py:108-114)
get_all_classes_df(cls) ==
    LET names == SortTexts({cls[i].class_name : i \in 1..Len(cls)})
    IN [k \in 1..Len(names) |->
          CHOOSE r \in {cls[i] : i \in 1..Len(cls)} : r.class_name = names[k]]

\* add_class_name written with INSERT OR REPLACE: an existing row is
\* replaced by an active one
add_class_name_reactivate(cls, raw) ==
    LET name == Strip(raw) IN
    IF name = <<>> THEN [ret |-> FALSE, classes |-> cls]
    ELSE IF \E i \in 1..Len(cls) : cls[i].class_name = name
    THEN [ret |-> TRUE,
          classes |-> [i \in 1..Len(cls) |->
                         IF cls[i].class_name = name
                         THEN [cls[i] EXCEPT !.is_active = 1] ELSE cls[i]]]
    ELSE [ret |-> TRUE,
          classes |-> Append(cls, [id |-> Len(cls) + 1, class_name |-> name,
                                   is_active |-> 1])]

\* add_class_name (app.py:117-134): INSERT OR IGNORE under UNIQUE(class_name)
add_class_name(cls, raw) ==
    LET name == Strip(raw) IN
    IF name = <<>> THEN [ret |-> FALSE, classes |-> cls]
    ELSE IF \E i \in 1..Len(cls) : cls[i].class_name = name
    THEN [ret |-> TRUE, classes |-> cls]
    ELSE [ret |-> TRUE,
          classes |-> Append(cls, [id |-> Len(cls) + 1, class_name |-> name,
                                   is_active |-> 1])]

\* an UPDATE without its WHERE clause
set_class_active_all(cls, class_id, active) ==
    [i \in 1..Len(cls) |-> [cls[i] EXCEPT !.is_active = IF active THEN 1 ELSE 0]]

\* set_class_active (app.py:137-145)
set_class_active(cls, class_id, active) ==
    [i \in 1..Len(cls) |->
        IF cls[i].id = class_id
        THEN [cls[i] EXCEPT !.is_active = IF active THEN 1 ELSE 0]
        ELSE cls[i]]

(***************************************************************************)
(* Upload store                                                            *)
(***************************************************************************)
\* the path save_uploaded_file writes to (app.py:159-167)
upload_path(t, uf, class_name, group_name) ==
    LET safe_class == sanitize_name(class_name)
        safe_group == sanitize_name(group_name)
        target_dir == path_join(path_join(UPLOAD_DIR, safe_class), safe_group)
        file_name == strftime(t) \o <<"_">> \o sanitize_name(uf.name)
    IN path_join(target_dir, file_name)

\* open(file_path, "wb") (app.py:169): the file exists and is empty
open_wb(fls, file_path) ==
    [p \in DOMAIN fls \cup {file_path} |->
        IF p = file_path THEN [content |-> <<>>, complete |-> FALSE] ELSE fls[p]]

\* f.write(uploaded_file.getbuffer()) and close (app.py:170)
write_all(fls, file_path, bytes) ==
    [p \in DOMAIN fls \cup {file_path} |->
        IF p = file_path THEN [content |-> bytes, complete |-> TRUE] ELSE fls[p]]

\* the external removal of a stored file
remove_file(fls, file_path) == [p \in DOMAIN fls \ {file_path} |-> fls[p]]

(***************************************************************************)
(* Archive builder                                                         *)
(***************************************************************************)
RECURSIVE SplitSlash(_)
SplitSlash(p) ==
    IF \E i \in 1..Len(p) : p[i] = "/"
    THEN LET i == CHOOSE k \in 1..Len(p) :
                    p[k] = "/" /\ \A j \in 1..(k - 1) : p[j] # "/"
         IN <<SubSeq(p, 1, i - 1)>> \o SplitSlash(SubSeq(p, i + 1, Len(p)))
    ELSE <<p>>

RECURSIVE NormParts(_, _)
NormParts(parts, acc) ==
    IF parts = <<>> THEN acc
    ELSE LET c == Head(parts) IN
         IF c = <<>> \/ c = <<".">> THEN NormParts(Tail(parts), acc)
         ELSE IF c = <<".", ".">> /\ acc # <<>> /\ acc[Len(acc)] # <<".", ".">>
         THEN NormParts(Tail(parts), SubSeq(acc, 1, Len(acc) - 1))
         ELSE NormParts(Tail(parts), Append(acc, c))

RECURSIVE JoinSlash(_)
JoinSlash(parts) ==
    IF parts = <<>> THEN <<>>
    ELSE IF Len(parts) = 1 THEN parts[1]
    ELSE parts[1] \o <<"/">> \o JoinSlash(Tail(parts))

\* the entry name ZipFile.write gives an arcname: os.path.normpath, then
\* the leading separators are dropped (a relative arcname is assumed)
zip_name(arcname) ==
    LET parts == NormParts(SplitSlash(arcname), <<>>)
    IN IF parts = <<>> THEN <<".">> ELSE JoinSlash(parts)

\* the archive entry of one row (app.py:187-191)
zip_entry(row, fls) ==
    LET class_name == sanitize_name(row.class_name)
        group_name == sanitize_name(row.group_name)
        file_name == IF row.file_name # <<>> THEN row.file_name
                     ELSE basename(row.file_path)
    IN [arcname |-> zip_name(path_join(path_join(class_name, group_name), file_name)),
        content |-> fls[row.file_path].content]

\* an archive that keeps one entry per logical path
RECURSIVE create_zip_dedup(_, _)
create_zip_dedup(df, fls) ==
    IF df = <<>> THEN <<>>
    ELSE LET rest == create_zip_dedup(Tail(df), fls)
             row == Head(df)
         IN IF row.file_path # <<>> /\ row.file_path \in DOMAIN fls
               /\ ~\E k \in 1..Len(rest) : rest[k].arcname = zip_entry(row, fls).arcname
            THEN <<zip_entry(row, fls)>> \o rest
            ELSE rest

\* create_zip_from_df (app.py:177-193): the entries of the archive, in order
RECURSIVE create_zip_from_df(_, _)
create_zip_from_df(df, fls) ==
    IF df = <<>> THEN <<>>
    ELSE LET row == Head(df) IN
         (IF row.file_path # <<>> /\ row.file_path \in DOMAIN fls
          THEN <<zip_entry(row, fls)>> ELSE <<>>)
         \o create_zip_from_df(Tail(df), fls)

(***************************************************************************)
(* Admin listing                                                           *)
(***************************************************************************)
SeqRange(s) == {s[i] : i \in 1..Len(s)}

\* the values offered by the class selectbox (app.py:379)
class_options(df) == {SemuaKelas} \cup {df[i].class_name : i \in 1..Len(df)}

\* the rows left by the class filter (app.py:382-385)
filter_class(df, selected_class) ==
    IF selected_class # SemuaKelas
    THEN SelectSeq(df, LAMBDA r : r.class_name = selected_class)
    ELSE df

\* the values offered by the group selectbox (app.py:388-393)
group_options(df_filtered) ==
    {SemuaKelompok} \cup {df_filtered[i].group_name : i \in 1..Len(df_filtered)}

\* the rows left by the group filter (app.py:397-398)
filter_group(df_filtered, selected_group) ==
    IF selected_group # SemuaKelompok
    THEN SelectSeq(df_filtered, LAMBDA r : r.group_name = selected_group)
    ELSE df_filtered

(***************************************************************************)
(* Inputs                                                                  *)
(***************************************************************************)
\* what the admin types into "Tambah Kelas Baru"
UiClassInputs == {<<" ", "X", " ", "1", " ">>, <<" ">>}

\* class names handed to add_class_name by a direct caller
ClassInputs == UiClassInputs \cup {<<"Y">>}

\* what the student types into "Nama Lengkap"
GroupInputs == {<<"g", " ">>, SemuaKelompok, <<" ">>}

\* what the student types into "Catatan"
NotesInputs == {<<" ", "n">>}

\* files offered to the uploader: two names with the same sanitized form
Uploads == {[name |-> <<"a", " ", "b">>, bytes |-> <<1>>],
            [name |-> <<"a", "_", "b">>, bytes |-> <<2, 3>>]}

UploadLists == {<<>>} \cup {<<u>> : u \in Uploads}
                 \cup {<<u, v>> : u \in Uploads, v \in Uploads}

PasswordInputs == {ADMIN_PASSWORD, "guess"}

(***************************************************************************)
(* A run of main() (app.py:199-477)                                        *)
(***************************************************************************)
Idle == [pc |-> "idle", pending |-> <<>>, class_name |-> <<>>,
         group_name |-> <<>>, notes |-> <<>>, file_path |-> <<>>]

\* the page when the admin tab stops at the login form (app.py:295-309)
LoginPage(notice) == [panel |-> FALSE, listing |-> FALSE, notice |-> notice]

\* the admin tab of one run: the class panel (app.py:317-365) and, unless
\* the ledger is empty, the listing with its downloads (app.py:370-477);
\* adm is the flag as tested at app.py:295 and 308
AdminTab(adm, subs, notice) ==
    IF ~adm THEN LoginPage(notice)
    ELSE [panel |-> TRUE, listing |-> get_all_submissions(subs) # <<>>,
          notice |-> notice]

\* a validation that accepts a blank group name
validate_no_group(active_classes, class_name, group_name, uploaded_files) ==
    IF active_classes = <<>> THEN "no_active_class"
    ELSE IF class_name = <<>> THEN "no_class"
    ELSE IF uploaded_files = <<>> THEN "no_file"
    ELSE "ok"

\* the validation of the submit button (app.py:253-265)
validate(active_classes, class_name, group_name, uploaded_files) ==
    IF active_classes = <<>> THEN "no_active_class"
    ELSE IF class_name = <<>> THEN "no_class"
    ELSE IF Strip(group_name) = <<>> THEN "no_group"
    ELSE IF uploaded_files = <<>> THEN "no_file"
    ELSE "ok"

\* the value of the class selectbox (app.py:228-239)
ClassChoices(active_classes) ==
    IF active_classes # <<>> THEN SeqRange(active_classes) ELSE {<<>>}

\* click on "Kumpulkan Tugas" (app.py:253-266); a refused click goes on to
\* the admin tab
RunSubmitClick(class_name, group_name, uploaded_files, notes) ==
    LET active_classes == get_active_classes(classes)
        verdict == validate(active_classes, class_name, group_name, uploaded_files)
    IN /\ run.pc = "idle"
       /\ class_name \in ClassChoices(active_classes)
       /\ IF verdict # "ok"
          THEN /\ page' = AdminTab(is_admin, submissions, verdict)
               /\ UNCHANGED run
          ELSE /\ Len(submissions) + Len(uploaded_files) <= MaxSubs
               /\ run' = [pc |-> "open", pending |-> uploaded_files,
                          class_name |-> class_name, group_name |-> group_name,
                          notes |-> notes, file_path |-> <<>>]
               /\ UNCHANGED page
       /\ UNCHANGED <<now, classes, submissions, files, is_admin, call, uploaded,
                      crashes>>

\* save_uploaded_file up to open(file_path, "wb") (app.py:156-169)
SaveOpen ==
    /\ run.pc = "open"
    /\ LET file_path == upload_path(now, Head(run.pending), run.class_name,
                                    run.group_name)
       IN /\ files' = open_wb(files, file_path)
          /\ run' = [run EXCEPT !.pc = "write", !.file_path = file_path]
    /\ UNCHANGED <<now, classes, submissions, is_admin, page, call, uploaded,
                   crashes>>

\* save_uploaded_file, the write and the close (app.py:170-174)
SaveWrite ==
    /\ run.pc = "write"
    /\ files' = write_all(files, run.file_path, Head(run.pending).bytes)
    /\ run' = [run EXCEPT !.pc = "insert"]
    /\ UNCHANGED <<now, classes, submissions, is_admin, page, call, uploaded,
                   crashes>>

\* add_submission for the file just saved; after the last file the run
\* goes on to the admin tab (app.py:271-286, 291-451)
InsertRow ==
    /\ run.pc = "insert"
    /\ LET uf == Head(run.pending) IN
       /\ submissions' = add_submission(submissions, now, Strip(run.class_name),
                                        Strip(run.group_name), Strip(run.notes),
                                        run.file_path, uf.name, Len(uf.bytes))
       /\ uploaded' = Append(uploaded, [class_name |-> run.class_name,
                                        group_name |-> run.group_name,
                                        name |-> uf.name, bytes |-> uf.bytes])
    /\ IF Tail(run.pending) = <<>>
       THEN /\ run' = Idle
            /\ page' = AdminTab(is_admin, submissions', "submitted")
       ELSE /\ run' = [run EXCEPT !.pc = "open", !.pending = Tail(run.pending),
                                  !.file_path = <<>>]
            /\ UNCHANGED page
    /\ UNCHANGED <<now, classes, files, is_admin, call, crashes>>

\* the server process dies inside the submit loop; the session is lost
Crash ==
    /\ run.pc # "idle"
    /\ crashes < MaxCrashes
    /\ crashes' = crashes + 1
    /\ run' = Idle
    /\ is_admin' = FALSE
    /\ page' = LoginPage("")
    /\ UNCHANGED <<now, classes, submissions, files, call, uploaded>>

\* one second passes
Tick ==
    /\ now < MaxTime
    /\ now' = now + 1
    /\ UNCHANGED <<classes, submissions, files, is_admin, run, page, call,
                   uploaded, crashes>>

\* click on "Login Admin" (app.py:295-309); the form is on the page only
\* when the last run stopped at it
RunLoginClick(password_input) ==
    /\ run.pc = "idle"
    /\ ~page.panel
    /\ LET adm == is_admin \/ password_input = ADMIN_PASSWORD
       IN /\ is_admin' = adm
          /\ page' = AdminTab(adm, submissions, "")
    /\ UNCHANGED <<now, classes, submissions, files, run, call, uploaded, crashes>>

\* click on "Logout Admin" (app.py:295, 308-315, then 317-451)
RunLogoutClick ==
    /\ run.pc = "idle"
    /\ page.panel
    /\ IF ~is_admin
       THEN /\ page' = LoginPage("")
            /\ UNCHANGED is_admin
       ELSE /\ is_admin' = FALSE
            /\ page' = AdminTab(TRUE, submissions, "")
    /\ UNCHANGED <<now, classes, submissions, files, run, call, uploaded, crashes>>

\* click on "Tambah Kelas" (app.py:295, 308, 329-337)
RunAddClassClick(new_class_name) ==
    /\ run.pc = "idle"
    /\ page.panel
    /\ IF ~is_admin
       THEN /\ page' = LoginPage("")
            /\ UNCHANGED classes
       ELSE /\ page' = AdminTab(TRUE, submissions, "")
            /\ IF Strip(new_class_name) = <<>>
               THEN UNCHANGED classes
               ELSE classes' = add_class_name(classes, new_class_name).classes
    /\ UNCHANGED <<now, submissions, files, is_admin, run, call, uploaded, crashes>>

\* click on "Non-aktifkan" / "Aktifkan" of one row, then st.rerun()
\* (app.py:295, 308, 344-365)
RunToggleClick(i) ==
    /\ run.pc = "idle"
    /\ page.panel
    /\ i \in 1..Len(classes)
    /\ IF ~is_admin
       THEN /\ page' = LoginPage("")
            /\ UNCHANGED classes
       ELSE /\ classes' = set_class_active(classes, classes[i].id,
                                           classes[i].is_active # 1)
            /\ page' = AdminTab(TRUE, submissions, "")
    /\ UNCHANGED <<now, submissions, files, is_admin, run, call, uploaded, crashes>>

\* any other interaction (a selectbox, a text field): the script runs again
RunRerun ==
    /\ run.pc = "idle"
    /\ page' = AdminTab(is_admin, submissions, "")
    /\ UNCHANGED <<now, classes, submissions, files, is_admin, run, call,
                   uploaded, crashes>>

NoCall == [op |-> "none", arg |-> <<>>, ret |-> <<>>]

\* the state after init_db() on a fresh installation and the first run
Init ==
    /\ now = 0
    /\ classes = <<>>
    /\ submissions = <<>>
    /\ files = <<>>
    /\ is_admin = FALSE
    /\ run = Idle
    /\ page = LoginPage("")
    /\ call = NoCall
    /\ uploaded = <<>>
    /\ crashes = 0

SubmitSteps ==
    \/ \E c \in {Strip(x) : x \in UiClassInputs}, g \in GroupInputs,
          u \in UploadLists, n \in NotesInputs : RunSubmitClick(c, g, u, n)
    \/ SaveOpen
    \/ SaveWrite
    \/ InsertRow

AdminSteps ==
    \/ \E pw \in PasswordInputs : RunLoginClick(pw)
    \/ RunLogoutClick
    \/ \E raw \in UiClassInputs : RunAddClassClick(raw)
    \/ \E i \in 1..Len(classes) : RunToggleClick(i)
    \/ RunRerun

NextNoCrash == SubmitSteps \/ AdminSteps \/ Tick

Next == NextNoCrash \/ Crash

Spec == Init /\ [][Next]_vars

\* the portal when the server never dies
SpecNoCrash == Init /\ [][NextNoCrash]_vars

(***************************************************************************)
(* Direct calls of the functions of app.py                                 *)
(***************************************************************************)
\* uploads of a direct caller: also one without a name
ApiUploads == Uploads \cup {[name |-> <<>>, bytes |-> <<4>>]}

\* add_class_name(raw)
Api_add_class_name(raw) ==
    /\ LET r == add_class_name(classes, raw) IN
       /\ classes' = r.classes
       /\ call' = [op |-> "add_class_name", arg |-> raw, ret |-> r.ret]
    /\ UNCHANGED <<now, submissions, files, is_admin, run, page, uploaded, crashes>>

\* set_class_active(class_id, active)
Api_set_class_active(class_id, active) ==
    /\ classes' = set_class_active(classes, class_id, active)
    /\ call' = [op |-> "set_class_active", arg |-> <<class_id, active>>,
                ret |-> <<>>]
    /\ UNCHANGED <<now, submissions, files, is_admin, run, page, uploaded, crashes>>

\* the body of the submit loop for one file: save_uploaded_file, then
\* add_submission (app.py:268-278); at most cap rows
Api_store(uf, class_name, group_name, notes, cap) ==
    /\ Len(submissions) < cap
    /\ LET file_path == upload_path(now, uf, class_name, group_name) IN
       /\ files' = write_all(open_wb(files, file_path), file_path, uf.bytes)
       /\ submissions' = add_submission(submissions, now, Strip(class_name),
                                        Strip(group_name), Strip(notes),
                                        file_path, uf.name, Len(uf.bytes))
       /\ call' = [op |-> "save_uploaded_file",
                   arg |-> [uf |-> uf, class_name |-> class_name,
                            group_name |-> group_name],
                   ret |-> <<file_path, uf.name, Len(uf.bytes)>>]
    /\ uploaded' = Append(uploaded, [class_name |-> class_name,
                                     group_name |-> group_name,
                                     name |-> uf.name, bytes |-> uf.bytes])
    /\ UNCHANGED <<now, classes, is_admin, run, page, crashes>>

\* create_zip_from_df(get_all_submissions())
Api_create_zip ==
    /\ LET df == get_all_submissions(submissions) IN
       call' = [op |-> "create_zip_from_df",
                arg |-> [df |-> df, existing |-> DOMAIN files],
                ret |-> create_zip_from_df(df, files)]
    /\ UNCHANGED <<now, classes, submissions, files, is_admin, run, page,
                   uploaded, crashes>>

\* a stored file is removed from outside the program
ExternalDelete(file_path) ==
    /\ file_path \in DOMAIN files
    /\ files' = remove_file(files, file_path)
    /\ UNCHANGED <<now, classes, submissions, is_admin, run, page, call,
                   uploaded, crashes>>

RegistryNext ==
    \/ \E raw \in ClassInputs : Api_add_class_name(raw)
    \/ \E i \in 1..(Len(classes) + 1), b \in BOOLEAN : Api_set_class_active(i, b)
    \/ \E uf \in Uploads, c \in SeqRange(get_active_classes(classes)),
          n \in NotesInputs :
          Api_store(uf, c, <<"g", " ">>, n, MaxRegRows)

\* the class registry under direct calls
RegistrySpec == Init /\ [][RegistryNext]_vars

StoreNext ==
    \/ \E uf \in ApiUploads, n \in NotesInputs :
          Api_store(uf, <<"X", " ", "1">>, <<"g", " ">>, n, MaxRows)
    \/ Api_create_zip
    \/ \E p \in DOMAIN files : ExternalDelete(p)
    \/ Tick

\* the ledger, the upload store and the archive builder under direct calls
StoreSpec == Init /\ [][StoreNext]_vars

(***************************************************************************)
(* sanitize_name on its own                                                *)
(***************************************************************************)
SanChars == {"a", "Z", "7", "-", "_", " ", ".", "U+00E9", "U+2014"}

SanInputs == UNION {[1..k -> SanChars] : k \in 0..MaxSanLen}

SanInit ==
    /\ now = 0
    /\ classes = <<>>
    /\ submissions = <<>>
    /\ files = <<>>
    /\ is_admin = FALSE
    /\ run = Idle
    /\ page = LoginPage("")
    /\ \E s \in SanInputs : call = [op |-> "none", arg |-> s, ret |-> <<>>]
    /\ uploaded = <<>>
    /\ crashes = 0

\* sanitize_name(name)
Api_sanitize_name ==
    /\ call.op = "none"
    /\ call' = [op |-> "sanitize_name", arg |-> call.arg,
                ret |-> sanitize_name(call.arg)]
    /\ UNCHANGED <<now, classes, submissions, files, is_admin, run, page,
                   uploaded, crashes>>

SanSpec == SanInit /\ [][Api_sanitize_name]_vars

(***************************************************************************)
(* Properties                                                              *)
(***************************************************************************)

\* C1: after successful submissions (the server never dies, no file is
\* removed from outside) every record returned by get_all_submissions has
\* the trimmed class, the trimmed group, the original file name and the
\* byte length of the upload that created it, and the bytes at its
\* file_path are the bytes of that upload.
C1_RecordsMatchUploads ==
    run.pc = "idle" =>
        LET df == get_all_submissions(submissions) IN
        \A k \in 1..Len(df) :
            LET r == df[k]
                u == uploaded[r.id]
            IN /\ r.class_name = Strip(u.class_name)
               /\ r.group_name = Strip(u.group_name)
               /\ r.file_name = u.name
               /\ r.file_size = Len(u.bytes)
               /\ r.file_path \in DOMAIN files
               /\ files[r.file_path].content = u.bytes

C3_AddClassName ==
    [][\A raw \in ClassInputs :
         (call'.op = "add_class_name" /\ call'.arg = raw) =>
            LET known == {classes[i].class_name : i \in 1..Len(classes)}
                blank == \A i \in 1..Len(raw) : raw[i] \in Whitespace
            IN /\ blank => call'.ret = FALSE /\ classes' = classes
               /\ (~blank /\ \E n \in known : n = Strip(raw)) =>
                     call'.ret = TRUE /\ classes' = classes
               /\ (~blank /\ ~\E n \in known : n = Strip(raw)) =>
                     /\ call'.ret = TRUE
                     /\ Len(classes') = Len(classes) + 1
                     /\ SubSeq(classes', 1, Len(classes)) = classes
                     /\ classes'[Len(classes')].class_name = Strip(raw)
                     /\ classes'[Len(classes')].is_active = 1
               /\ add_class_name(classes', raw).classes = classes'
      ]_vars

\* add_class_name was called with the name of an inactive class
C3_Witness ==
    /\ call.op = "add_class_name"
    /\ call.ret = TRUE
    /\ \E i \in 1..Len(classes) :
          classes[i].class_name = Strip(call.arg) /\ classes[i].is_active = 0

\* C4: set_class_active(id, False) changes only the is_active flag of the
\* entry with that id: its name leaves get_active_classes, every other
\* entry and the ledger are unchanged; an unknown id changes nothing.
C4_SetClassInactive ==
    [][\A id \in 1..(Len(classes) + 1) :
         (call'.op = "set_class_active" /\ call'.arg = <<id, FALSE>>) =>
            /\ submissions' = submissions
            /\ get_all_submissions(submissions') = get_all_submissions(submissions)
            /\ Len(classes') = Len(classes)
            /\ \A i \in 1..Len(classes) :
                  IF classes[i].id = id
                  THEN /\ classes'[i].id = id
                       /\ classes'[i].class_name = classes[i].class_name
                       /\ classes'[i].is_active = 0
                       /\ classes[i].class_name
                             \notin SeqRange(get_active_classes(classes'))
                  ELSE classes'[i] = classes[i]
            /\ (~\E i \in 1..Len(classes) : classes[i].id = id) =>
                  classes' = classes
      ]_vars

\* a class with a submission was deactivated while another class is active
C4_Witness ==
    /\ call.op = "set_class_active"
    /\ call.arg[2] = FALSE
    /\ \E i, j \in 1..Len(classes) :
          /\ classes[i].id = call.arg[1]
          /\ classes[i].is_active = 0
          /\ classes[j].is_active = 1
          /\ \E k \in 1..Len(submissions) :
                submissions[k].class_name = classes[i].class_name

\* C5: a submit click that fails validation (no active class, no class
\* selected, blank group name, no file) does not enter the write loop and
\* writes no file and no ledger row; while no class is active nothing is
\* recorded.
C5_RefusedSubmitWritesNothing ==
    [][/\ \* the write loop is entered only by a click that passes all checks
          (run.pc = "idle" /\ run'.pc # "idle") =>
             /\ \E i \in 1..Len(classes) :
                   classes[i].is_active = 1 /\ classes[i].class_name = run'.class_name
             /\ run'.class_name # <<>>
             /\ \E i \in 1..Len(run'.group_name) :
                   run'.group_name[i] \notin Whitespace
             /\ Len(run'.pending) > 0
       /\ \* a run that does not enter the loop writes nothing
          (run.pc = "idle" /\ run'.pc = "idle") =>
             files' = files /\ submissions' = submissions
       /\ (~\E i \in 1..Len(classes) : classes[i].is_active = 1) =>
             files' = files /\ submissions' = submissions
      ]_vars

\* a click was refused for want of an active class, after the only class
\* of an earlier submission was deactivated
C5_Witness ==
    /\ page.notice = "no_active_class"
    /\ classes # <<>>
    /\ submissions # <<>>

\* C6: create_zip_from_df over N records of which M have an existing
\* file_path yields exactly M entries, in record order, each named
\* sanitize(class)/sanitize(group)/file_name (the basename of file_path
\* when file_name is empty); missing files are skipped, equal names are
\* all written.
C6_ZipEntries ==
    call.op = "create_zip_from_df" =>
        LET df == call.arg.df
            z == call.ret
            present == {i \in 1..Len(df) : df[i].file_path \in call.arg.existing}
            nth(k) == CHOOSE i \in present :
                         Cardinality({j \in present : j < i}) = k - 1
        IN /\ Len(z) = Cardinality(present)
           /\ \A k \in 1..Len(z) :
                 LET r == df[nth(k)]
                     dir == sanitize_name(r.class_name) \o <<"/">>
                              \o sanitize_name(r.group_name) \o <<"/">>
                     name == SubSeq(z[k].arcname, Len(dir) + 1, Len(z[k].arcname))
                 IN /\ Len(z[k].arcname) >= Len(dir)
                    /\ SubSeq(z[k].arcname, 1, Len(dir)) = dir
                    /\ r.file_name # <<>> => name = r.file_name
                    /\ r.file_name = <<>> =>
                          /\ \A i \in 1..Len(name) : name[i] # "/"
                          /\ Len(r.file_path) > Len(name)
                          /\ SubSeq(r.file_path, Len(r.file_path) - Len(name),
                                    Len(r.file_path)) = <<"/">> \o name

\* an archive of three records: one file is missing, the other two have
\* no file_name and the same entry name
C6_Witness ==
    /\ call.op = "create_zip_from_df"
    /\ Len(call.ret) = 2
    /\ Len(call.arg.df) = 3
    /\ call.ret[1].arcname = call.ret[2].arcname
    /\ \E k \in 1..3 :
          /\ call.arg.df[k].file_name = <<>>
          /\ call.arg.df[k].file_path \in call.arg.existing

\* C7: selecting a class value and then a group value of the ledger yields
\* exactly the records with that class_name and that group_name.
C7_FilterExact ==
    LET df == get_all_submissions(submissions) IN
    \A c \in {df[i].class_name : i \in 1..Len(df)} :
       \A g \in {df[i].group_name : i \in {j \in 1..Len(df) : df[j].class_name = c}} :
          filter_group(filter_class(df, c), g)
             = SelectSeq(df, LAMBDA r : r.class_name = c /\ r.group_name = g)

\* C8 as written: the result of sanitize_name has only characters of
\* [A-Za-z0-9_-] and the length of the trimmed input.
C8_AsciiOnly ==
    call.op = "sanitize_name" =>
        /\ \A i \in 1..Len(call.ret) : IsAsciiSafe(call.ret[i])
        /\ \E a \in 1..(Len(call.arg) + 1) : \E b \in 0..Len(call.arg) :
              /\ \A i \in 1..(a - 1) : call.arg[i] \in Whitespace
              /\ \A i \in (b + 1)..Len(call.arg) : call.arg[i] \in Whitespace
              /\ a <= b => call.arg[a] \notin Whitespace /\ call.arg[b] \notin Whitespace
              /\ a > b => a = b + 1
              /\ Len(call.ret) = b - a + 1

\* C8 amended: the result has the length of the trimmed input; a character
\* of the trimmed input that is alphanumeric in the sense of str.isalnum
\* (non-ASCII letters and digits included), a hyphen or an underscore is
\* kept, every other character becomes one underscore.
C8_SanitizeName ==
    call.op = "sanitize_name" =>
        \E a \in 1..(Len(call.arg) + 1) : \E b \in 0..Len(call.arg) :
           /\ \A i \in 1..(a - 1) : call.arg[i] \in Whitespace
           /\ \A i \in (b + 1)..Len(call.arg) : call.arg[i] \in Whitespace
           /\ a <= b => call.arg[a] \notin Whitespace /\ call.arg[b] \notin Whitespace
           /\ a > b => a = b + 1
           /\ Len(call.ret) = b - a + 1
           /\ \A i \in 1..Len(call.ret) :
                 LET c == call.arg[a + i - 1] IN
                 /\ (c \in AsciiDigits \cup AsciiUpper \cup AsciiLower
                          \cup UnicodeAlnum \cup {"-", "_"}) => call.ret[i] = c
                 /\ (c \notin AsciiDigits \cup AsciiUpper \cup AsciiLower
                          \cup UnicodeAlnum \cup {"-", "_"}) => call.ret[i] = "_"

\* a name with a leading blank, a non-ASCII letter that is kept and a
\* character that is replaced
C8_Witness ==
    /\ call.op = "sanitize_name"
    /\ Len(call.ret) < Len(call.arg)
    /\ \E i \in 1..Len(call.ret) : call.ret[i] \in UnicodeAlnum
    /\ \E i \in 1..Len(call.arg) : call.arg[i] = "."
    /\ \E i \in 1..Len(call.ret) : call.ret[i] = "_"

\* C9: at every point of execution, a crash included, every ledger row's
\* file_path refers to a stored file that is fully written.
C9_RowsHaveWrittenFiles ==
    \A i \in 1..Len(submissions) :
       /\ submissions[i].file_path \in DOMAIN files
       /\ files[submissions[i].file_path].complete

\* C10: while is_admin is false the page shows no admin content.
C10_NoAdminContentLoggedOut ==
    ~is_admin => ~page.panel /\ ~page.listing

====
